---------------------------- MODULE Spec2Model ----------------------------
(***************************************************************************)
(* A model of the bencode decoder (src/src/bencode.rs) and of the torrent  *)
(* descriptor extraction (src/src/torrent.rs).                             *)
(*                                                                         *)
(* A buffer is a sequence of byte values 0..255.  Rust offsets are 0-based *)
(* and TLA+ sequences 1-based: At(data, i) is data[i] of the source and    *)
(* Slice(data, a, b) is data[a..b].  Every fallible call returns a record  *)
(* whose kind is "Ok", "Err" (a returned Err(String)) or "Panic" (an index *)
(* or slice out of range: Rust aborts the call with a panic).              *)
(***************************************************************************)
EXTENDS Integers, Sequences, FiniteSets, TLC

(***************************************************************************)
(* Byte values of the characters the tokenizer matches on.                 *)
(***************************************************************************)
ChI == 105
ChD == 100
ChE == 101
ChL == 108
ChColon == 58
ChMinus == 45
ChPlus == 43
Ch0 == 48
Ch9 == 57

IsDigit(c) == c >= Ch0 /\ c <= Ch9

At(data, i) == data[i + 1]

Slice(data, a, b) == SubSeq(data, a + 1, b)

Last(s) == s[Len(s)]

(***************************************************************************)
(* std::str::from_utf8 / String::from_utf8: the well-formed UTF-8 byte     *)
(* sequences (Unicode table 3-7).                                          *)
(***************************************************************************)
IsCont(s, i, lo, hi) == i <= Len(s) /\ s[i] >= lo /\ s[i] <= hi

RECURSIVE Utf8From(_, _)
Utf8From(s, i) ==
  IF i > Len(s) THEN TRUE
  ELSE LET b == s[i] IN
    IF b < 128 THEN Utf8From(s, i + 1)
    ELSE IF b >= 194 /\ b <= 223
      THEN IsCont(s, i + 1, 128, 191) /\ Utf8From(s, i + 2)
    ELSE IF b >= 224 /\ b <= 239
      THEN /\ IsCont(s, i + 1, IF b = 224 THEN 160 ELSE 128, IF b = 237 THEN 159 ELSE 191)
           /\ IsCont(s, i + 2, 128, 191)
           /\ Utf8From(s, i + 3)
    ELSE IF b >= 240 /\ b <= 244
      THEN /\ IsCont(s, i + 1, IF b = 240 THEN 144 ELSE 128, IF b = 244 THEN 143 ELSE 191)
           /\ IsCont(s, i + 2, 128, 191)
           /\ IsCont(s, i + 3, 128, 191)
           /\ Utf8From(s, i + 4)
    ELSE FALSE

from_utf8_ok(s) == Utf8From(s, 1)

(***************************************************************************)
(* str::parse::<i64>() and str::parse::<usize>().  The value is computed   *)
(* digit by digit; a decimal that does not fit the target type is an       *)
(* error.  The limits are compared as digit strings (they exceed the       *)
(* integers TLC computes with), so parse results are numbers only for runs *)
(* of at most SmallDigits significant digits; the input sets below hold no *)
(* in-range literal longer than that.                                      *)
(***************************************************************************)
SmallDigits == 9

I64MaxDigits == <<9,2,2,3,3,7,2,0,3,6,8,5,4,7,7,5,8,0,7>>
I64MinDigits == <<9,2,2,3,3,7,2,0,3,6,8,5,4,7,7,5,8,0,8>>
UsizeMaxDigits == <<1,8,4,4,6,7,4,4,0,7,3,7,0,9,5,5,1,6,1,5>>

RECURSIVE StripZeros(_)
StripZeros(ds) ==
  IF ds # <<>> /\ ds[1] = Ch0 THEN StripZeros(Tail(ds)) ELSE ds

RECURSIVE DigitsGreater(_, _, _)
\* ds (bytes) and lim (digit values) have the same length: is ds > lim ?
DigitsGreater(ds, lim, i) ==
  IF i > Len(ds) THEN FALSE
  ELSE IF ds[i] - Ch0 # lim[i] THEN ds[i] - Ch0 > lim[i]
  ELSE DigitsGreater(ds, lim, i + 1)

Exceeds(ds, lim) ==
  LET sig == StripZeros(ds) IN
    \/ Len(sig) > Len(lim)
    \/ Len(sig) = Len(lim) /\ DigitsGreater(sig, lim, 1)

RECURSIVE DigitsValue(_, _)
DigitsValue(ds, acc) ==
  IF ds = <<>> THEN acc ELSE DigitsValue(Tail(ds), acc * 10 + (ds[1] - Ch0))

parse_i64(s) ==
  IF s = <<>> THEN [kind |-> "Err", msg |-> "cannot parse integer from empty string"]
  ELSE LET signed == s[1] = ChMinus \/ s[1] = ChPlus
           neg    == s[1] = ChMinus
           ds     == IF signed THEN Tail(s) ELSE s
       IN IF ds = <<>> \/ \E k \in 1..Len(ds) : ~IsDigit(ds[k])
            THEN [kind |-> "Err", msg |-> "invalid digit found in string"]
          ELSE IF neg /\ Exceeds(ds, I64MinDigits)
            THEN [kind |-> "Err", msg |-> "number too small to fit in target type"]
          ELSE IF ~neg /\ Exceeds(ds, I64MaxDigits)
            THEN [kind |-> "Err", msg |-> "number too large to fit in target type"]
          ELSE [kind |-> "Ok",
                value |-> IF neg THEN 0 - DigitsValue(StripZeros(ds), 0)
                                 ELSE DigitsValue(StripZeros(ds), 0)]

\* s is a non-empty run of ASCII digits (next_string's loop passed it).
\* big: the value is at least 10^SmallDigits, more than any buffer holds.
parse_usize(s) ==
  IF s = <<>> THEN [kind |-> "Err", msg |-> "cannot parse integer from empty string"]
  ELSE LET signed == s[1] = ChPlus
           ds     == IF signed THEN Tail(s) ELSE s
       IN IF ds = <<>> \/ \E k \in 1..Len(ds) : ~IsDigit(ds[k])
            THEN [kind |-> "Err", msg |-> "invalid digit found in string"]
          ELSE IF Exceeds(ds, UsizeMaxDigits)
            THEN [kind |-> "Err", msg |-> "number too large to fit in target type"]
          ELSE IF Len(StripZeros(ds)) > SmallDigits
            THEN [kind |-> "Ok", big |-> TRUE, value |-> 0]
          ELSE [kind |-> "Ok", big |-> FALSE, value |-> DigitsValue(StripZeros(ds), 0)]

(***************************************************************************)
(* Tokenizer.  A call returns [kind, index] and, when Ok, the token tok =  *)
(* [t, v]; when Err, the message msg.  index is self.index after the call. *)
(***************************************************************************)
TokOk(t, v, i) == [kind |-> "Ok", tok |-> [t |-> t, v |-> v], index |-> i, msg |-> ""]
TokErr(m, i)   == [kind |-> "Err", tok |-> [t |-> "None", v |-> <<>>], index |-> i, msg |-> m]
TokPanic(i)    == [kind |-> "Panic", tok |-> [t |-> "None", v |-> <<>>], index |-> i, msg |-> ""]

RECURSIVE StringScan(_, _)
\* the loop of next_string: data[self.index] is read without a bounds check
StringScan(data, i) ==
  IF i >= Len(data) THEN TokPanic(i)
  ELSE IF IsDigit(At(data, i)) THEN StringScan(data, i + 1)
  ELSE IF At(data, i) = ChColon THEN TokOk("Colon", <<>>, i)
  ELSE TokErr("Invalid token in string", i)

next_string(data, index) ==
  LET start == index
      scan  == StringScan(data, index)
  IN IF scan.kind # "Ok" THEN scan
     ELSE LET i   == scan.index
              txt == Slice(data, start, i)
          IN IF ~from_utf8_ok(txt) THEN TokErr("invalid utf-8 sequence", i)
             ELSE LET length == parse_usize(txt) IN
               IF length.kind = "Err" THEN TokErr(length.msg, i)
               ELSE IF length.big \/ i + length.value + 1 > Len(data) THEN TokPanic(i)
               ELSE TokOk("String", Slice(data, i + 1, i + length.value + 1),
                          i + length.value + 1)

RECURSIVE IntScan(_, _, _)
\* the loop of next_int: data[self.index] is read without a bounds check
IntScan(data, start, i) ==
  IF i >= Len(data) THEN TokPanic(i)
  ELSE IF At(data, i) = ChE
    THEN LET txt == Slice(data, start, i) IN
         IF ~from_utf8_ok(txt) THEN TokErr("invalid utf-8 sequence", i)
         ELSE LET value == parse_i64(txt) IN
           IF value.kind = "Err" THEN TokErr(value.msg, i)
           ELSE TokOk("Int", value.value, i + 1)
  ELSE IntScan(data, start, i + 1)

\* next_int without "let start = self.index" after the skip of 'i': the text
\* handed to parse::<i64> starts at the marker
next_int_from_marker(data, index) == IntScan(data, index, index + 1)

next_int(data, index) == IntScan(data, index + 1, index + 1)

next(data, index) ==
  IF index >= Len(data) THEN TokErr("No more tokens", index)
  ELSE LET c == At(data, index) IN
    IF c = ChI THEN next_int(data, index)
    ELSE IF IsDigit(c) THEN next_string(data, index)
    ELSE IF c = ChD THEN TokOk("DictStart", <<>>, index + 1)
    ELSE IF c = ChE THEN TokOk("ListDictEnd", <<>>, index + 1)
    ELSE IF c = ChL THEN TokOk("ListStart", <<>>, index + 1)
    ELSE TokErr("Invalid token", index)

(***************************************************************************)
(* Bencode values: [tag, value, pos] with pos = [start, end].  A Dict's    *)
(* value is a function from keys (the key's bytes; String::from_utf8 keeps *)
(* the bytes) to values, a List's value a sequence.                        *)
(***************************************************************************)
Pos(s, e) == [start |-> s, end |-> e]
Bencode(tag, value, pos) == [tag |-> tag, value |-> value, pos |-> pos]
NoValue == [tag |-> "None", value |-> <<>>, pos |-> Pos(0, 0)]

\* An error: the message of the frame that raised it and the context the
\* enclosing frames prefixed, outermost first.  The key that parse_dict
\* formats into its prefix is kept beside the frame's name.
Error(msg) == [msg |-> msg, ctx |-> <<>>]
Prefixed(frame, key, e) ==
  [msg |-> e.msg, ctx |-> <<[frame |-> frame, key |-> key]>> \o e.ctx]
NoError == Error("")

Ok(val, i)  == [kind |-> "Ok", val |-> val, err |-> NoError, index |-> i]
Err(e, i)   == [kind |-> "Err", val |-> NoValue, err |-> e, index |-> i]
Panic(i)    == [kind |-> "Panic", val |-> NoValue, err |-> NoError, index |-> i]

\* HashMap::new and HashMap::insert (the later insert of a key replaces)
EmptyDict == <<>>

\* an insert that keeps the entry a key already has (entry().or_insert)
insert_keeps_first(dict, key, value) ==
  [k \in (DOMAIN dict) \cup {key} |-> IF k \in DOMAIN dict THEN dict[k] ELSE value]

insert(dict, key, value) ==
  [k \in (DOMAIN dict) \cup {key} |-> IF k = key THEN value ELSE dict[k]]

RECURSIVE parse_dict(_, _, _, _)
RECURSIVE parse_list(_, _, _, _)

\* parse_dict after its value: dict.insert(dict_key, value_token) and the
\* next turn of the loop, or the return of the value's error
DictInsert(data, pos, dict, dict_key, value_token) ==
  IF value_token.kind # "Ok" THEN value_token
  ELSE parse_dict(data, value_token.index, pos,
                  insert(dict, dict_key, value_token.val))

\* parse_dict's match on the token v read for the value of dict_key; start is
\* the offset where that token began
DictValue(data, dict_key, start, v) ==
  IF v.kind = "Panic" THEN Panic(v.index)
  ELSE IF v.kind = "Err"
    THEN Err(Prefixed("parse_dict > parsing value for key", dict_key,
                      Error(v.msg)), v.index)
  ELSE IF v.tok.t = "Int"
    THEN Ok(Bencode("Int", v.tok.v, Pos(start, v.index)), v.index)
  ELSE IF v.tok.t = "String"
    THEN Ok(Bencode("String", v.tok.v, Pos(start, v.index)), v.index)
  ELSE IF v.tok.t = "DictStart"
    THEN parse_dict(data, v.index, Pos(v.index, 0), EmptyDict)
  ELSE IF v.tok.t = "ListStart"
    THEN parse_list(data, v.index, Pos(v.index, 0), <<>>)
  ELSE Err(Error("Unexpected token"), v.index)

\* parse_dict's match on the token k read where a key is expected
DictKey(data, pos, dict, k) ==
  IF k.kind = "Panic" THEN Panic(k.index)
  ELSE IF k.kind = "Err" THEN Err(Error(k.msg), k.index)
  ELSE IF k.tok.t = "ListDictEnd"
    THEN Ok(Bencode("Dict", dict, Pos(pos.start, k.index)), k.index)
  ELSE IF k.tok.t # "String" THEN Err(Error("Unexpected token"), k.index)
  ELSE IF ~from_utf8_ok(k.tok.v) THEN Err(Error("invalid utf-8 sequence"), k.index)
  ELSE DictInsert(data, pos, dict, k.tok.v,
                  DictValue(data, k.tok.v, k.index, next(data, k.index)))

\* One turn of parse_dict's loop, dict being the entries inserted so far.
parse_dict(data, index, pos, dict) ==
  DictKey(data, pos, dict, next(data, index))

\* parse_list after an element: list.push(token) and the next turn of the
\* loop, or the return of the element's error
ListPush(data, pos, list, token) ==
  IF token.kind # "Ok" THEN token
  ELSE parse_list(data, token.index, pos, Append(list, token.val))

\* parse_list's match on the token t; start is the offset where t began
ListItem(data, pos, list, start, t) ==
  IF t.kind = "Panic" THEN Panic(t.index)
  ELSE IF t.kind = "Err" THEN Err(Error(t.msg), t.index)
  ELSE IF t.tok.t = "ListDictEnd"
    THEN Ok(Bencode("List", list, Pos(pos.start, t.index)), t.index)
  ELSE ListPush(data, pos, list,
         IF t.tok.t = "Int"
           THEN Ok(Bencode("Int", t.tok.v, Pos(pos.start, t.index)), t.index)
         ELSE IF t.tok.t = "String"
           THEN Ok(Bencode("String", t.tok.v, Pos(start, t.index)), t.index)
         ELSE IF t.tok.t = "DictStart"
           THEN parse_dict(data, t.index, Pos(start, 0), EmptyDict)
         ELSE parse_list(data, t.index, Pos(start, 0), <<>>))

\* One turn of parse_list's loop, list being the elements pushed so far.
parse_list(data, index, pos, list) ==
  ListItem(data, pos, list, index, next(data, index))

\* parse's match on next_token; pos = Pos{start, end: self.tokenizer.index}
ParseToken(data, pos, next_token) ==
  IF next_token.kind = "Panic" THEN Panic(next_token.index)
  ELSE IF next_token.kind = "Err"
    THEN Err(Prefixed("parse", <<>>, Error(next_token.msg)), next_token.index)
  ELSE IF next_token.tok.t = "Int"
    THEN Ok(Bencode("Int", next_token.tok.v, pos), next_token.index)
  ELSE IF next_token.tok.t = "String"
    THEN Ok(Bencode("String", next_token.tok.v, pos), next_token.index)
  ELSE IF next_token.tok.t = "DictStart"
    THEN parse_dict(data, next_token.index, pos, EmptyDict)
  ELSE IF next_token.tok.t = "ListStart"
    THEN parse_list(data, next_token.index, pos, <<>>)
  ELSE Err(Error("Unexpected token"), next_token.index)

ParseAt(data, start, next_token) ==
  ParseToken(data, Pos(start, next_token.index), next_token)

parse(data, index) == ParseAt(data, index, next(data, index))

(***************************************************************************)
(* torrent.rs.  The dictionary keys, as bytes.                             *)
(***************************************************************************)
\* "announce"
KeyAnnounce == <<97, 110, 110, 111, 117, 110, 99, 101>>
\* "creation date"
KeyCreationDate == <<99, 114, 101, 97, 116, 105, 111, 110, 32, 100, 97, 116, 101>>
\* "created by"
KeyCreatedBy == <<99, 114, 101, 97, 116, 101, 100, 32, 98, 121>>
\* "info"
KeyInfo == <<105, 110, 102, 111>>
\* "files"
KeyFiles == <<102, 105, 108, 101, 115>>
\* "length"
KeyLength == <<108, 101, 110, 103, 116, 104>>
\* "name"
KeyName == <<110, 97, 109, 101>>
\* "piece length"
KeyPieceLength == <<112, 105, 101, 99, 101, 32, 108, 101, 110, 103, 116, 104>>
\* "pieces"
KeyPieces == <<112, 105, 101, 99, 101, 115>>
\* "path"
KeyPath == <<112, 97, 116, 104>>

PieceSize == 20

\* Result of an extraction: Ok with a value, Err with the message, Panic.
XOk(v)    == [kind |-> "Ok", val |-> v, msg |-> ""]
XErr(m)   == [kind |-> "Err", val |-> <<>>, msg |-> m]
XPanic    == [kind |-> "Panic", val |-> <<>>, msg |-> ""]

\* Option<T>
Some(v) == [some |-> TRUE, v |-> v]
None    == [some |-> FALSE, v |-> <<>>]

Has(d, key) == key \in DOMAIN d

extract_string(d, key) ==
  IF Has(d, key) /\ d[key].tag = "String"
    THEN IF from_utf8_ok(d[key].value) THEN XOk(d[key].value)
         ELSE XErr("Invalid announce string")
  ELSE XErr("Invalid announce string")

extract_optional_string(d, key) ==
  IF ~Has(d, key) THEN XOk(None)
  ELSE IF d[key].tag = "String"
    THEN IF from_utf8_ok(d[key].value) THEN XOk(Some(d[key].value))
         ELSE XErr("Invalid string")
  ELSE XErr("Invalid created by type")

extract_i64(d, key) ==
  IF Has(d, key) /\ d[key].tag = "Int" THEN XOk(d[key].value)
  ELSE XErr("Invalid i64")

extract_option_i64(d, key) ==
  IF ~Has(d, key) THEN XOk(None)
  ELSE IF d[key].tag = "Int" THEN XOk(Some(d[key].value))
  ELSE XErr("Invalid option type")

RECURSIVE PiecesLoop(_, _, _)
\* the while loop of extract_pieces: s[i..i+20] panics when i + 20 > s.len();
\* a slice of 20 bytes always converts to [u8; 20]
PiecesLoop(s, i, pieces) ==
  IF ~(i < Len(s)) THEN XOk(pieces)
  ELSE IF i + PieceSize > Len(s) THEN XPanic
  ELSE PiecesLoop(s, i + PieceSize, Append(pieces, Slice(s, i, i + PieceSize)))

extract_pieces(d) ==
  IF ~Has(d, KeyPieces) THEN XOk(<<>>)
  ELSE IF d[KeyPieces].tag = "String" THEN PiecesLoop(d[KeyPieces].value, 0, <<>>)
  ELSE XErr("Invalid pieces type")

RECURSIVE PathLoop(_, _, _)
\* the for loop of File::from_bencode over the path list
PathLoop(p, k, paths) ==
  IF k > Len(p) THEN XOk(paths)
  ELSE IF p[k].tag # "String" THEN XErr("Invalid path type")
  ELSE IF ~from_utf8_ok(p[k].value) THEN XErr("Invalid path string")
  ELSE PathLoop(p, k + 1, Append(paths, p[k].value))

File_from_bencode(b) ==
  IF b.tag # "Dict" THEN XErr("Expected dictionary for file")
  ELSE LET d == b.value
           length == extract_i64(d, KeyLength)
       IN IF length.kind # "Ok" THEN length
          ELSE IF ~(Has(d, KeyPath) /\ d[KeyPath].tag = "List")
            THEN XErr("Invalid path, expected list")
          ELSE LET path == PathLoop(d[KeyPath].value, 1, <<>>) IN
            IF path.kind # "Ok" THEN path
            ELSE XOk([length |-> length.val, path |-> path.val])

\* what Info::from_bencode returns when File::from_bencode returned Err(_)
FileError(e) == XErr("Invalid file")

RECURSIVE FilesLoop(_, _, _)
\* the for loop of Info::from_bencode over the files list
FilesLoop(b_files, k, files) ==
  IF k > Len(b_files) THEN XOk(Some(files))
  ELSE LET file == File_from_bencode(b_files[k]) IN
    IF file.kind = "Ok" THEN FilesLoop(b_files, k + 1, Append(files, file.val))
    ELSE FileError(file)

Info_from_bencode(b) ==
  IF b.tag # "Dict" THEN XErr("Expected dictionary for info")
  ELSE LET d == b.value
           files == IF ~Has(d, KeyFiles) THEN XOk(None)
                    ELSE IF d[KeyFiles].tag = "List"
                      THEN FilesLoop(d[KeyFiles].value, 1, <<>>)
                    ELSE XErr("Invalid files type")
           length       == extract_option_i64(d, KeyLength)
           name         == extract_string(d, KeyName)
           piece_length == extract_i64(d, KeyPieceLength)
           pieces       == extract_pieces(d)
       IN IF files.kind # "Ok" THEN files
          ELSE IF length.kind # "Ok" THEN length
          ELSE IF name.kind # "Ok" THEN name
          ELSE IF piece_length.kind # "Ok" THEN piece_length
          ELSE IF pieces.kind # "Ok" THEN pieces
          ELSE XOk([files |-> files.val, length |-> length.val, name |-> name.val,
                    piece_length |-> piece_length.val, pieces |-> pieces.val])

TorrentFile_from_bencode(b) ==
  IF b.tag # "Dict" THEN XErr("Expected dictionary")
  ELSE LET d == b.value
           announce      == extract_string(d, KeyAnnounce)
           creation_date == extract_option_i64(d, KeyCreationDate)
           created_by    == extract_optional_string(d, KeyCreatedBy)
           info          == IF Has(d, KeyInfo) THEN Info_from_bencode(d[KeyInfo])
                            ELSE XErr("Missing info")
       IN IF announce.kind # "Ok" THEN announce
          ELSE IF creation_date.kind # "Ok" THEN creation_date
          ELSE IF created_by.kind # "Ok" THEN created_by
          ELSE IF info.kind # "Ok" THEN info
          ELSE XOk([announce |-> announce.val, created_by |-> created_by.val,
                    creation_date |-> creation_date.val, info |-> info.val])

(***************************************************************************)
(* Input buffers.  Enc* write a value the way a bencode encoder does; they *)
(* build the buffers and take no part in decoding.                         *)
(***************************************************************************)
MaxRaw == 4
MaxToks == 5
MaxIntLit == 120
MaxStrLen == 11
MaxEntries == 3
MaxIntBody == 3
MaxPiecesLen == 41

RECURSIVE Dec(_)
\* the decimal digits of n >= 0, as bytes
Dec(n) == IF n < 10 THEN <<Ch0 + n>> ELSE Append(Dec(n \div 10), Ch0 + (n % 10))

EncInt(n) == <<ChI>> \o (IF n < 0 THEN <<ChMinus>> \o Dec(0 - n) ELSE Dec(n)) \o <<ChE>>
EncStr(s) == Dec(Len(s)) \o <<ChColon>> \o s
EncList(items) == <<ChL>> \o items \o <<ChE>>
EncDict(entries) == <<ChD>> \o entries \o <<ChE>>
\* a dictionary entry; an empty encoding stands for "the key is absent"
Entry(key, enc) == IF enc = <<>> THEN <<>> ELSE EncStr(key) \o enc

RawBytes == {ChI, ChE, ChL, ChMinus, Ch0, Ch0 + 1, ChColon, 97}

RECURSIVE SeqsUpTo(_, _)
SeqsUpTo(S, n) ==
  IF n = 0 THEN {<<>>}
  ELSE LET shorter == SeqsUpTo(S, n - 1) IN
       shorter \cup {Append(s, x) : s \in shorter, x \in S}

\* every byte string of at most MaxRaw bytes over RawBytes
RawInputs == SeqsUpTo(RawBytes, MaxRaw)

\* "l", "d", "e", "i1e", "1:a", "1:b"
Tokens == {<<ChL>>, <<ChD>>, <<ChE>>, EncInt(1), EncStr(<<97>>), EncStr(<<98>>)}

RECURSIVE Concat(_)
Concat(ss) == IF ss = <<>> THEN <<>> ELSE ss[1] \o Concat(Tail(ss))

\* every concatenation of at most MaxToks well-formed tokens
TokenInputs == {Concat(ts) : ts \in SeqsUpTo(Tokens, MaxToks)}

\* integer literals i<N>e, and two whose N does not fit 64 bits
IntLitRange == (0 - MaxIntLit)..MaxIntLit
IntLits == {EncInt(n) : n \in IntLitRange}
WideIntLits == {<<ChI>> \o [k \in 1..19 |-> Ch0 + I64MinDigits[k]] \o <<ChE>>,
                <<ChI, ChMinus>> \o [k \in 1..20 |-> Ch0 + 9] \o <<ChE>>}

\* i<body>e for every body of at most MaxIntBody bytes over IntBodyBytes
IntBodyBytes == {ChMinus, ChPlus, Ch0, Ch0 + 2, Ch0 + 4, 97}
IntBodyInputs == {<<ChI>> \o body \o <<ChE>> : body \in SeqsUpTo(IntBodyBytes, MaxIntBody)}

\* string bodies: every string of at most 2 bytes over StrBytes, and for each
\* length up to MaxStrLen the strings of one repeated byte and of bytes 1..L
StrBytes == {97, ChColon, ChE, Ch0 + 1, 255}
StrBodies ==
  SeqsUpTo(StrBytes, 2)
    \cup {[k \in 1..n |-> b] : n \in 0..MaxStrLen, b \in StrBytes}
    \cup {[k \in 1..n |-> k] : n \in 0..MaxStrLen}
StrLits == {EncStr(s) : s \in StrBodies}
\* length prefixes that no buffer can honour, and one that does not fit usize
WideStrLits == {[k \in 1..10 |-> Ch0 + 1] \o <<ChColon, 97>>,
                [k \in 1..20 |-> Ch0 + 9] \o <<ChColon, 97>>}

\* dictionaries of at most MaxEntries entries, keys and values drawn freely
\* (so keys repeat): the entry lists and their encodings
EntryKeys == {<<97>>, <<98>>}
EntryValues == {EncInt(1), EncInt(2), EncStr(<<97>>), EncList(<<>>)}
EntrySeqs == SeqsUpTo(EntryKeys \X EntryValues, MaxEntries)
EncEntries(es) == Concat([k \in 1..Len(es) |-> EncStr(es[k][1]) \o es[k][2]])
DictCases == {<<EncDict(EncEntries(es)), es>> : es \in EntrySeqs}
DictLits == {c[1] : c \in DictCases}

\* torrent files: each field absent (<<>>), well-formed or ill-typed
PieceBytes(n) == [k \in 1..n |-> k]
GoodFile == EncDict(Entry(KeyLength, EncInt(5))
                    \o Entry(KeyPath, EncList(EncStr(<<97>>) \o EncStr(<<98>>))))
BadFiles ==
  { EncInt(3),
    EncDict(Entry(KeyPath, EncList(EncStr(<<97>>)))),
    EncDict(Entry(KeyLength, EncInt(5))),
    EncDict(Entry(KeyLength, EncInt(5)) \o Entry(KeyPath, EncStr(<<97>>))),
    EncDict(Entry(KeyLength, EncInt(5)) \o Entry(KeyPath, EncList(EncInt(1)))),
    EncDict(Entry(KeyLength, EncInt(5)) \o Entry(KeyPath, EncList(EncStr(<<255>>)))) }
AnnounceOpts == {<<>>, EncStr(<<117>>), EncInt(1), EncStr(<<255>>)}
CreatedByOpts == {<<>>, EncStr(<<99>>), EncInt(1), EncStr(<<255>>)}
CreationDateOpts == {<<>>, EncInt(7), EncStr(<<120>>)}
FilesOpts == {<<>>, EncInt(1), EncList(<<>>), EncList(GoodFile), EncList(GoodFile \o GoodFile)}
               \cup {EncList(GoodFile \o bad) : bad \in BadFiles}
LengthOpts == {<<>>, EncInt(9), EncStr(<<120>>)}
NameOpts == {<<>>, EncStr(<<110>>), EncInt(1), EncStr(<<255>>)}
PieceLengthOpts == {<<>>, EncInt(16), EncInt(0), EncInt(0 - 1), EncStr(<<120>>)}
PiecesOpts == {<<>>, EncInt(1)} \cup {EncStr(PieceBytes(n)) : n \in 0..MaxPiecesLen}

EncInfo(files, length, name, piece_length, pieces) ==
  EncDict(Entry(KeyFiles, files) \o Entry(KeyLength, length) \o Entry(KeyName, name)
          \o Entry(KeyPieceLength, piece_length) \o Entry(KeyPieces, pieces))
EncTorrent(announce, created_by, creation_date, info) ==
  EncDict(Entry(KeyAnnounce, announce) \o Entry(KeyCreatedBy, created_by)
          \o Entry(KeyCreationDate, creation_date) \o Entry(KeyInfo, info))

GoodInfo == EncInfo(<<>>, EncInt(9), EncStr(<<110>>), EncInt(16), EncStr(PieceBytes(PieceSize)))
InfoOpts ==
  {<<>>, EncInt(1)}
    \cup {EncInfo(<<>>, EncInt(9), n, pl, p) :
            n \in NameOpts, pl \in PieceLengthOpts, p \in PiecesOpts}
    \cup {EncInfo(f, l, n, pl, p) :
            f \in FilesOpts, l \in LengthOpts, n \in NameOpts, pl \in PieceLengthOpts,
            p \in {<<>>, EncStr(PieceBytes(PieceSize))}}
TorrentInputs ==
  {EncTorrent(a, cb, cd, GoodInfo) :
     a \in AnnounceOpts, cb \in CreatedByOpts, cd \in CreationDateOpts}
    \cup {EncTorrent(a, <<>>, <<>>, i) : a \in {<<>>, EncStr(<<117>>)}, i \in InfoOpts}

Inputs ==
  RawInputs \cup TokenInputs \cup IntBodyInputs \cup IntLits \cup WideIntLits \cup StrLits \cup WideStrLits
    \cup DictLits \cup TorrentInputs

VARIABLES data, index, pc, token, parsed, torrent
vars == <<data, index, pc, token, parsed, torrent>>

Init ==
  /\ data \in Inputs
  /\ index = 0
  /\ pc = "new"
  /\ token = TokErr("", 0)
  /\ parsed = Err(NoError, 0)
  /\ torrent = XErr("")

\* Tokenizer::next on a fresh tokenizer
NextToken ==
  /\ pc = "new"
  /\ token' = next(data, index)
  /\ index' = token'.index
  /\ pc' = "token"
  /\ UNCHANGED <<data, parsed, torrent>>

\* Parser::new(reader).parse()
Parse ==
  /\ pc = "new"
  /\ parsed' = parse(data, index)
  /\ index' = parsed'.index
  /\ pc' = "parsed"
  /\ UNCHANGED <<data, token, torrent>>

\* TorrentFile::from_bencode(&data) on the tree parse returned (main.rs)
FromBencode ==
  /\ pc = "parsed"
  /\ parsed.kind = "Ok"
  /\ torrent' = TorrentFile_from_bencode(parsed.val)
  /\ pc' = "extracted"
  /\ UNCHANGED <<data, index, token, parsed>>

Next == NextToken \/ Parse \/ FromBencode

Spec == Init /\ [][Next]_vars
(***************************************************************************)
(* Helpers of the properties below.                                        *)
(***************************************************************************)
Inside(child, parent) ==
  /\ parent.pos.start <= child.pos.start
  /\ child.pos.start <= child.pos.end
  /\ child.pos.end <= parent.pos.end

Disjoint(a, b) == a.pos.end <= b.pos.start \/ b.pos.end <= a.pos.start

RECURSIVE SpansNested(_)
\* every child inside its parent; list elements in increasing order, the
\* values of a dictionary (whose encounter order the map does not keep)
\* pairwise disjoint
SpansNested(b) ==
  IF b.tag = "List"
    THEN /\ \A k \in 1..Len(b.value) : Inside(b.value[k], b) /\ SpansNested(b.value[k])
         /\ \A i, j \in 1..Len(b.value) :
              i < j => b.value[i].pos.end <= b.value[j].pos.start
  ELSE IF b.tag = "Dict"
    THEN /\ \A k \in DOMAIN b.value : Inside(b.value[k], b) /\ SpansNested(b.value[k])
         /\ \A k1, k2 \in DOMAIN b.value :
              k1 # k2 => Disjoint(b.value[k1], b.value[k2])
  ELSE TRUE

\* the bytes of b's span are one complete container of b's kind, from its
\* marker byte to its End byte
OwnExtent(buf, b) ==
  /\ b.pos.start < b.pos.end
  /\ b.pos.end <= Len(buf)
  /\ At(buf, b.pos.start) = (IF b.tag = "List" THEN ChL ELSE ChD)
  /\ At(buf, b.pos.end - 1) = ChE
  /\ LET again == parse(Slice(buf, b.pos.start, b.pos.end), 0) IN
       /\ again.kind = "Ok"
       /\ again.val.tag = b.tag
       /\ again.index = b.pos.end - b.pos.start

RECURSIVE ContainerSpans(_, _)
ContainerSpans(buf, b) ==
  IF b.tag = "List"
    THEN OwnExtent(buf, b) /\ \A k \in 1..Len(b.value) : ContainerSpans(buf, b.value[k])
  ELSE IF b.tag = "Dict"
    THEN OwnExtent(buf, b) /\ \A k \in DOMAIN b.value : ContainerSpans(buf, b.value[k])
  ELSE TRUE

(***************************************************************************)
(* C1.  Parser::parse ends, for every buffer, by returning a value or an   *)
(* Err: it never panics, and a buffer cut inside a token yields Err.       *)
(***************************************************************************)
C1_ParseNeverPanics == pc = "parsed" => parsed.kind \in {"Ok", "Err"}

\* the part of C1 about containers: when the input ends inside a list or a
\* dictionary (every token read was well-formed), parse returns Err
C1_UnterminatedContainerIsErr ==
  (pc = "parsed" /\ data \in TokenInputs /\ parsed.index = Len(data)
     /\ data # <<>> /\ Last(data) # ChE /\ data[1] \in {ChL, ChD})
    => parsed.kind = "Err"

(***************************************************************************)
(* C2.  A buffer that is one valid leaf literal decodes to that leaf with  *)
(* the span [0, length of the literal): i<N>e (N within 64 bits) yields    *)
(* Int(N); <len>:<bytes> yields String of exactly the len bytes, span      *)
(* [0, digits(len) + 1 + len); the cursor ends at the span's end.          *)
(***************************************************************************)
C2_LeafLiteralSpan ==
  pc = "parsed" =>
    /\ data \in IntLits =>
         \E n \in IntLitRange :
           /\ data = EncInt(n)
           /\ parsed.kind = "Ok"
           /\ parsed.val.tag = "Int"
           /\ parsed.val.value = n
           /\ parsed.val.pos = Pos(0, Len(data))
           /\ index = Len(data)
    /\ data \in StrLits =>
         \E s \in StrBodies :
           /\ data = EncStr(s)
           /\ parsed.kind = "Ok"
           /\ parsed.val.tag = "String"
           /\ parsed.val.value = s
           /\ parsed.val.pos = Pos(0, Len(Dec(Len(s))) + 1 + Len(s))
           /\ index = Len(Dec(Len(s))) + 1 + Len(s)

\* "i-42e" decoded to Int(-42) with span [0, 5)
C2_Witness ==
  /\ pc = "parsed"
  /\ data = <<ChI, ChMinus, Ch0 + 4, Ch0 + 2, ChE>>
  /\ parsed.kind = "Ok"
  /\ parsed.val.tag = "Int"
  /\ parsed.val.value = 0 - 42
  /\ parsed.val.pos = Pos(0, 5)

(***************************************************************************)
(* C3.  In a decoded tree every child's span lies inside its parent's and  *)
(* siblings do not overlap: each starts at or after the end of the one     *)
(* before it.                                                              *)
(***************************************************************************)
C3_SpansNestedAndOrdered ==
  (pc = "parsed" /\ parsed.kind = "Ok") => SpansNested(parsed.val)

(***************************************************************************)
(* C4.  Every List and Dictionary of a decoded tree, at any depth, has a   *)
(* span that starts at its own 'l' or 'd' byte and ends just past its      *)
(* matching 'e'.                                                           *)
(***************************************************************************)
C4_ContainerSpanIsOwnExtent ==
  (pc = "parsed" /\ parsed.kind = "Ok") => ContainerSpans(data, parsed.val)

(***************************************************************************)
(* C5.  Tokenizer::next returns an error, and no Integer token, for an     *)
(* integer literal i<body>e whose body breaks the grammar: after the       *)
(* optional leading '-', no digit at all, a byte that is not a digit, or a *)
(* leading zero on a run longer than "0".                                  *)
(***************************************************************************)
BreaksIntGrammar(body) ==
  LET ds == IF body # <<>> /\ body[1] = ChMinus THEN Tail(body) ELSE body IN
    \/ ds = <<>>
    \/ \E k \in 1..Len(ds) : ~IsDigit(ds[k])
    \/ Len(ds) > 1 /\ ds[1] = Ch0

IsIntLiteralShape(buf) ==
  /\ Len(buf) >= 2
  /\ buf[1] = ChI
  /\ Last(buf) = ChE
  /\ \A k \in 2..(Len(buf) - 1) : buf[k] # ChE

C5_MalformedIntIsError ==
  (pc = "token" /\ IsIntLiteralShape(data)
     /\ BreaksIntGrammar(SubSeq(data, 2, Len(data) - 1)))
    => token.kind = "Err"

(***************************************************************************)
(* C6.  For an info dictionary whose "pieces" is a string of length L:     *)
(* when L is not a multiple of 20 the extraction of the pieces returns     *)
(* Err; when it is, it yields the L/20 digests, the k-th being bytes       *)
(* [20k, 20k+20).                                                          *)
(***************************************************************************)
HasInfoDict ==
  /\ parsed.kind = "Ok"
  /\ parsed.val.tag = "Dict"
  /\ Has(parsed.val.value, KeyInfo)
  /\ parsed.val.value[KeyInfo].tag = "Dict"

InfoDict == parsed.val.value[KeyInfo].value

HasPiecesString ==
  HasInfoDict /\ Has(InfoDict, KeyPieces) /\ InfoDict[KeyPieces].tag = "String"

\* the fields from_bencode evaluates before "pieces" are all well-formed
RootFieldsOk ==
  /\ parsed.kind = "Ok"
  /\ parsed.val.tag = "Dict"
  /\ extract_string(parsed.val.value, KeyAnnounce).kind = "Ok"
  /\ extract_option_i64(parsed.val.value, KeyCreationDate).kind = "Ok"
  /\ extract_optional_string(parsed.val.value, KeyCreatedBy).kind = "Ok"

InfoFieldsBeforePiecesOk ==
  /\ Has(InfoDict, KeyFiles) =>
       /\ InfoDict[KeyFiles].tag = "List"
       /\ FilesLoop(InfoDict[KeyFiles].value, 1, <<>>).kind = "Ok"
  /\ extract_option_i64(InfoDict, KeyLength).kind = "Ok"
  /\ extract_string(InfoDict, KeyName).kind = "Ok"
  /\ extract_i64(InfoDict, KeyPieceLength).kind = "Ok"

C6_PiecesLengthChecked ==
  (pc = "extracted" /\ RootFieldsOk /\ HasPiecesString /\ InfoFieldsBeforePiecesOk) =>
    LET s == InfoDict[KeyPieces].value IN
      IF Len(s) % 20 # 0
        THEN torrent.kind = "Err" /\ torrent.msg = "Invalid piece length"
        ELSE /\ torrent.kind = "Ok"
             /\ Len(torrent.val.info.pieces) = Len(s) \div 20
             /\ \A k \in 1..(Len(s) \div 20) :
                  torrent.val.info.pieces[k] = SubSeq(s, 20 * (k - 1) + 1, 20 * k)

(***************************************************************************)
(* C7.  from_bencode fails, with an error that names the absent key, when  *)
(* the root lacks "announce" or "info" or the info dictionary lacks        *)
(* "name", "piece length" or "pieces" (every other field being present and *)
(* well-formed); no descriptor is returned.                                *)
(***************************************************************************)
GoodAnnounce == EncStr(<<117>>)
GoodName == EncStr(<<110>>)
GoodPieces == EncStr(PieceBytes(PieceSize))

\* the well-formed torrent with one required key left out, and that key
MissingOne ==
  { <<EncTorrent(<<>>, <<>>, <<>>, GoodInfo), KeyAnnounce>>,
    <<EncTorrent(GoodAnnounce, <<>>, <<>>, <<>>), KeyInfo>>,
    <<EncTorrent(GoodAnnounce, <<>>, <<>>,
                 EncInfo(<<>>, EncInt(9), <<>>, EncInt(16), GoodPieces)), KeyName>>,
    <<EncTorrent(GoodAnnounce, <<>>, <<>>,
                 EncInfo(<<>>, EncInt(9), GoodName, <<>>, GoodPieces)), KeyPieceLength>>,
    <<EncTorrent(GoodAnnounce, <<>>, <<>>,
                 EncInfo(<<>>, EncInt(9), GoodName, EncInt(16), <<>>)), KeyPieces>> }

\* the key an error message names, if any
NamesKey(msg, key) ==
  \/ msg = "Missing info" /\ key = KeyInfo
  \/ msg = "Invalid announce string" /\ key = KeyAnnounce

C7_MissingFieldNamed ==
  pc = "extracted" =>
    \A c \in MissingOne :
      data = c[1] => torrent.kind = "Err" /\ NamesKey(torrent.msg, c[2])

(***************************************************************************)
(* C8.  Every descriptor from_bencode returns has info.piece_length > 0.   *)
(***************************************************************************)
C8_PieceLengthPositive ==
  (pc = "extracted" /\ torrent.kind = "Ok") => torrent.val.info.piece_length > 0

(***************************************************************************)
(* C9.  A dictionary whose source repeats a key decodes, and maps every    *)
(* distinct key to the value decoded from the key's last occurrence.       *)
(***************************************************************************)
LastIndexOf(es, key) ==
  CHOOSE j \in 1..Len(es) :
    es[j][1] = key /\ \A m \in (j + 1)..Len(es) : es[m][1] # key

\* offset just past the j-th entry of the dictionary written from es
EntryEnd(es, j) == 1 + Len(EncEntries(SubSeq(es, 1, j)))

C9_LastOccurrenceWins ==
  (pc = "parsed" /\ data \in DictLits) =>
    \E c \in DictCases : LET es == c[2] IN
      /\ data = c[1]
      /\ parsed.kind = "Ok"
      /\ parsed.val.tag = "Dict"
      /\ DOMAIN parsed.val.value = {es[j][1] : j \in 1..Len(es)}
      /\ \A key \in DOMAIN parsed.val.value :
           LET j    == LastIndexOf(es, key)
               want == parse(es[j][2], 0).val
               got  == parsed.val.value[key]
           IN /\ got.tag = want.tag
              /\ got.value = want.value
              /\ got.pos.end = EntryEnd(es, j)

\* "d1:ai1e1:ai2ee": key "a" twice, the dictionary holds the second value
C9_Witness ==
  /\ pc = "parsed"
  /\ data = EncDict(EncStr(<<97>>) \o EncInt(1) \o EncStr(<<97>>) \o EncInt(2))
  /\ parsed.kind = "Ok"
  /\ DOMAIN parsed.val.value = {<<97>>}
  /\ parsed.val.value[<<97>>].value = 2

(***************************************************************************)
(* C10.  An error raised in a nested frame reaches the caller of parse /   *)
(* from_bencode with its kind unchanged: the error of a file entry through *)
(* Info::from_bencode, the error of info through TorrentFile::from_bencode,*)
(* the error of the first token through parse.                             *)
(***************************************************************************)
HasFilesList ==
  HasInfoDict /\ Has(InfoDict, KeyFiles) /\ InfoDict[KeyFiles].tag = "List"

FirstFailingFile(b_files) ==
  CHOOSE k \in 1..Len(b_files) :
    /\ File_from_bencode(b_files[k]).kind = "Err"
    /\ \A m \in 1..(k - 1) : File_from_bencode(b_files[m]).kind = "Ok"

C10_ErrorKindPreserved ==
  /\ (pc = "parsed" /\ next(data, 0).kind = "Err")
       => parsed.kind = "Err" /\ parsed.err.msg = next(data, 0).msg
  /\ (pc = "extracted" /\ RootFieldsOk /\ HasInfoDict
        /\ Info_from_bencode(parsed.val.value[KeyInfo]).kind = "Err")
       => /\ torrent.kind = "Err"
          /\ torrent.msg = Info_from_bencode(parsed.val.value[KeyInfo]).msg
  /\ (pc = "extracted" /\ RootFieldsOk /\ HasFilesList
        /\ \E k \in 1..Len(InfoDict[KeyFiles].value) :
             File_from_bencode(InfoDict[KeyFiles].value[k]).kind = "Err")
       => LET b_files == InfoDict[KeyFiles].value IN
          /\ torrent.kind = "Err"
          /\ torrent.msg = File_from_bencode(b_files[FirstFailingFile(b_files)]).msg
=============================================================================
